---- MODULE Spec2Model ----
(***************************************************************************)
(* Model of src/custom_agent_role_instruction_no_tools.ts: the class       *)
(* CustomGermanAgent (system prompt, output schema, _run), the watsonx     *)
(* chat prompt template with messagesToPrompt, and the two top-level       *)
(* scripts (custom agent script, lines 226-270; BeeAgent script, lines     *)
(* 289-307).  The bee-agent-framework parts the scripts call (JsonDriver,  *)
(* PromptTemplate/Mustache, UnconstrainedMemory, BeeAgent) are not in the  *)
(* repository; they are modelled from the collaborator contract of         *)
(* spec.md section 6.                                                      *)
(*                                                                         *)
(* Strings are sequences of tokens: a token is one character of free text  *)
(* or one literal piece of a template (a delimiter such as "<|eot_id|>").  *)
(***************************************************************************)
EXTENDS Integers, Sequences, FiniteSets, TLC

----------------------------------------------------------------------------
(* Bounds of the model *)

\* largest maxRetries run option a caller of the agent passes
MaxRetriesOpt == 1
\* retry bound the driver uses when the maxRetries option is undefined
DefaultMaxRetries == 1
\* number of messages in a memory handed to the agent's constructor
MaxMemory == 1
\* number of runs a caller makes on one agent instance
MaxRuns == 2
\* number of messages handed to messagesToPrompt
MaxMessages == 3
\* length of a message text handed to messagesToPrompt
MaxTextLen == 1
\* length of the schema string handed to the system prompt
MaxSchemaLen == 2

----------------------------------------------------------------------------
(* Messages (bee-agent-framework/llms/primitives/message) *)

Roles == {"system", "user", "assistant"}

\* BaseMessage.of({ role, text })
BaseMessageOf(role, text) == [role |-> role, text |-> text]

\* texts of the main model: the empty string and a non-empty one
Texts == {<<>>, <<"a">>}

\* the user message of the custom agent script
ScriptMessage == BaseMessageOf("user", <<"q">>)

\* run options: maxRetries is optional
NoOptions == [defined |-> FALSE, maxRetries |-> 0]
WithMaxRetries(n) == [defined |-> TRUE, maxRetries |-> n]
RunOptionsSet == {NoOptions} \cup {WithMaxRetries(n) : n \in 0..MaxRetriesOpt}

----------------------------------------------------------------------------
(* Validation of structured values (zod) *)

\* z.string(): a string of any length, the empty one included
ZString == [type |-> "string", minLength |-> 0]
\* z.string().min(n)
ZStringMin(n) == [type |-> "string", minLength |-> n]

\* schema.safeParse(value).success for a z.object of string fields: every
\* declared field is present and long enough
ZodAccepts(schema, value) ==
    \A k \in DOMAIN schema :
        /\ k \in DOMAIN value
        /\ Len(value[k]) >= schema[k].minLength

\* the data of a successful parse: the declared fields, unknown ones stripped
ZodParsed(schema, value) == [k \in DOMAIN schema |-> value[k]]

----------------------------------------------------------------------------
(* CustomGermanAgent: output schema and _run *)

\* a schema that forgets to require thought
RunOutputSchema_NoThought == [k \in {"final_answer"} |-> ZString]

\* the schema _run passes to driver.generate
RunOutputSchema == [k \in {"thought", "final_answer"} |-> ZString]

\* a message list that puts the new input ahead of the memory
RunMessages_InputFirst(mem, msg) == <<msg>> \o mem

\* [...this.memory.messages, input.message]
RunMessages(mem, msg) == mem \o <<msg>>

\* a forwarding that adds one to the caller's bound
RunDriverOptions_OneMore(opts) ==
    [defined |-> opts.defined, maxRetries |-> opts.maxRetries + 1]

\* { maxRetries: options?.maxRetries, ... }
RunDriverOptions(opts) == [defined |-> opts.defined, maxRetries |-> opts.maxRetries]

\* a result message that carries the thought instead of the answer
RunResultMessage_Thought(parsed) == BaseMessageOf("assistant", parsed["thought"])

\* BaseMessage.of({ role: Role.ASSISTANT, text: response.parsed.final_answer })
RunResultMessage(parsed) == BaseMessageOf("assistant", parsed["final_answer"])

\* memory.add(message) of UnconstrainedMemory
MemoryAdd(mem, msg) == Append(mem, msg)

\* the retry bound the driver works with
DriverMaxRetries(dopts) ==
    IF dopts.defined THEN dopts.maxRetries ELSE DefaultMaxRetries

\* what the model can answer: JSON objects with any subset of the two fields,
\* each field empty or not, and output that is no JSON at all
JsonObjects == UNION {[S -> Texts] : S \in SUBSET {"thought", "final_answer"}}
LLMResponses == {[kind |-> "json", fields |-> f] : f \in JsonObjects}
                   \cup {[kind |-> "text", fields |-> <<>>]}

\* the driver's parser: the raw output is JSON and passes the schema
DriverAccepts(schema, resp) ==
    resp.kind = "json" /\ ZodAccepts(schema, resp.fields)

----------------------------------------------------------------------------
(* State *)

VARIABLES
    script,       \* who drives the agent: "custom", "bee" (the scripts), "lib"
    pc,           \* position of the top-level script
    exit,         \* <<>> while the process runs, <<code>> once it has exited
    log,          \* what was written to the console reader, console and logger
    catches,      \* number of times the top-level catch block ran
    apc,          \* position of the agent run
    memory,       \* this.memory.messages
    memAtCall,    \* memory.messages when the current run was called
    input,        \* input.message of the current run
    options,      \* options of the current run
    driverInput,  \* the message list _run handed to driver.generate
    driverOpts,   \* the options _run handed to driver.generate
    retries,      \* retries the driver has made in the current run
    requests,     \* model requests issued in the current run
    reqLog,       \* the message list of every model request of the current run
    raw,          \* the model response the driver accepted, <<r>>
    parsed,       \* response.parsed
    output,       \* what the run returned, <<out>>
    runError,     \* why the run rejected
    runCalls,     \* number of calls of agent.run
    requestsAtSettle, \* requests counted when the script saw the run settle
    iteration,    \* BeeAgent: iterations started
    totalRetries, \* BeeAgent: retries over all iterations
    tpc,          \* template model: what was rendered last
    tSchema,      \* the schema string given to the system prompt
    tRendered,    \* the rendered system prompt, <<string>>, or <<>> on error
    tMessages,    \* the messages given to messagesToPrompt
    tPrompt       \* the prompt messagesToPrompt returned

scriptVars == <<script, pc, exit, log, catches>>
agentVars == <<apc, memory, memAtCall, input, options, driverInput, driverOpts,
               retries, requests, reqLog, raw, parsed, output, runError,
               runCalls, requestsAtSettle>>
beeVars == <<iteration, totalRetries>>
templateVars == <<tpc, tSchema, tRendered, tMessages, tPrompt>>
vars == <<scriptVars, agentVars, beeVars, templateVars>>

Settled == apc \in {"resolved", "rejected"}

----------------------------------------------------------------------------
(* The observer the custom agent script registers with .observe() *)

\* one written line: who wrote it (an observer callback or the script's own
\* top-level code), where to, and what
Line(by, sink, kind) == [by |-> by, sink |-> sink, kind |-> kind]
Write(sink, kind) == Line("observer", sink, kind)

\* what the registered callbacks write when the framework delivers an event
ObserverWrites(event) ==
    CASE event = "start"       -> <<Write("reader", "start")>>
      [] event = "error"       -> <<Write("reader", "dump")>>
      [] event = "retry"       -> <<Write("reader", "retry")>>
      [] event = "update"      -> <<Write("reader", "update")>>
      [] event = "llm.start"   -> <<Write("console", "llm_input_title"),
                                    Write("console", "llm_input")>>
      [] event = "llm.success" -> <<Write("console", "llm_output_title"),
                                    Write("console", "llm_output")>>
      [] event = "llm.error"   -> <<Write("console", "llm_error")>>
      [] OTHER                 -> <<>>

RECURSIVE WritesOf(_)
WritesOf(events) ==
    IF events = <<>> THEN <<>>
    ELSE ObserverWrites(Head(events)) \o WritesOf(Tail(events))

\* the log after the framework has emitted the events: only the custom agent
\* script observes its run
Emit(events) == IF script = "custom" THEN log \o WritesOf(events) ELSE log

\* an event of the agent's emitter that the framework may deliver or not
Maybe(deliver, event) == IF deliver THEN <<event>> ELSE <<>>

----------------------------------------------------------------------------
(* CustomGermanAgent.run *)

\* a run that stores the input message in memory before it generates
AgentRunStart_StoreInput(msg, opts) ==
    /\ apc' = "generate"
    /\ memAtCall' = memory
    /\ memory' = MemoryAdd(memory, msg)
    /\ input' = msg
    /\ options' = opts
    /\ driverInput' = RunMessages(memory, msg)
    /\ driverOpts' = RunDriverOptions(opts)
    /\ retries' = 0
    /\ requests' = 0
    /\ reqLog' = <<>>
    /\ raw' = <<>>
    /\ parsed' = <<>>
    /\ output' = <<>>
    /\ runError' = "none"
    /\ runCalls' = runCalls + 1

\* agent.run({ message }, options) up to the call of driver.generate: the
\* message list and the driver options are built once, from the memory as it
\* is now
AgentRunStart(msg, opts) ==
    /\ apc' = "generate"
    /\ memAtCall' = memory
    /\ memory' = memory
    /\ input' = msg
    /\ options' = opts
    /\ driverInput' = RunMessages(memory, msg)
    /\ driverOpts' = RunDriverOptions(opts)
    /\ retries' = 0
    /\ requests' = 0
    /\ reqLog' = <<>>
    /\ raw' = <<>>
    /\ parsed' = <<>>
    /\ output' = <<>>
    /\ runError' = "none"
    /\ runCalls' = runCalls + 1

\* the driver sends its message list to the chat model
DriverRequest ==
    /\ script \in {"custom", "lib"}
    /\ apc = "generate"
    /\ apc' = "awaitLLM"
    /\ requests' = requests + 1
    /\ reqLog' = Append(reqLog, driverInput)
    /\ log' = Emit(<<"llm.start">>)
    /\ UNCHANGED <<script, pc, exit, catches>>
    /\ UNCHANGED <<memory, memAtCall, input, options, driverInput, driverOpts,
                   retries, raw, parsed, output, runError, runCalls,
                   requestsAtSettle>>
    /\ UNCHANGED <<beeVars, templateVars>>

\* the model answered: the driver returns the parsed answer, retries, or gives
\* up when the retries are used up
DriverResponse(r) ==
    /\ script \in {"custom", "lib"}
    /\ apc = "awaitLLM"
    /\ IF DriverAccepts(RunOutputSchema, r)
       THEN /\ apc' = "generated"
            /\ raw' = <<r>>
            /\ parsed' = ZodParsed(RunOutputSchema, r.fields)
            /\ UNCHANGED <<retries, runError>>
            /\ \E d \in BOOLEAN : log' = Emit(<<"llm.success">> \o Maybe(d, "update"))
       ELSE IF retries < DriverMaxRetries(driverOpts)
       THEN /\ apc' = "generate"
            /\ retries' = retries + 1
            /\ UNCHANGED <<raw, parsed, runError>>
            /\ \E d \in BOOLEAN : log' = Emit(<<"llm.success">> \o Maybe(d, "retry"))
       ELSE /\ apc' = "rejected"
            /\ runError' = "parse"
            /\ UNCHANGED <<raw, parsed, retries>>
            /\ \E d \in BOOLEAN : log' = Emit(<<"llm.success">> \o Maybe(d, "error"))
    /\ UNCHANGED <<script, pc, exit, catches>>
    /\ UNCHANGED <<memory, memAtCall, input, options, driverInput, driverOpts,
                   requests, reqLog, output, runCalls, requestsAtSettle>>
    /\ UNCHANGED <<beeVars, templateVars>>

\* the request failed (network, credentials): the run rejects
DriverNetworkError ==
    /\ script \in {"custom", "lib"}
    /\ apc = "awaitLLM"
    /\ apc' = "rejected"
    /\ runError' = "network"
    /\ \E d \in BOOLEAN : log' = Emit(<<"llm.error">> \o Maybe(d, "error"))
    /\ UNCHANGED <<script, pc, exit, catches>>
    /\ UNCHANGED <<memory, memAtCall, input, options, driverInput, driverOpts,
                   retries, requests, reqLog, raw, parsed, output, runCalls,
                   requestsAtSettle>>
    /\ UNCHANGED <<beeVars, templateVars>>

\* the run's signal is aborted while the driver generates
RunAbort ==
    /\ script = "lib"
    /\ apc \in {"generate", "awaitLLM"}
    /\ apc' = "rejected"
    /\ runError' = "abort"
    /\ UNCHANGED <<scriptVars>>
    /\ UNCHANGED <<memory, memAtCall, input, options, driverInput, driverOpts,
                   retries, requests, reqLog, raw, parsed, output, runCalls,
                   requestsAtSettle>>
    /\ UNCHANGED <<beeVars, templateVars>>

\* _run after driver.generate returned: the answer becomes an assistant
\* message, is added to memory and returned
RunFinish ==
    /\ script \in {"custom", "lib"}
    /\ apc = "generated"
    /\ apc' = "resolved"
    /\ memory' = MemoryAdd(memory, RunResultMessage(parsed))
    /\ output' = <<[message |-> RunResultMessage(parsed), state |-> parsed]>>
    /\ UNCHANGED <<scriptVars>>
    /\ UNCHANGED <<memAtCall, input, options, driverInput, driverOpts, retries,
                   requests, reqLog, raw, parsed, runError, runCalls,
                   requestsAtSettle>>
    /\ UNCHANGED <<beeVars, templateVars>>

----------------------------------------------------------------------------
(* BeeAgent.run with the execution options of the BeeAgent script *)

BeeMaxIterations == 8
BeeMaxRetriesPerStep == 3
BeeTotalMaxRetries == 10

BeeOutcomes == {"final", "tool", "invalid", "network"}

\* an iteration of the agent sends a request to the chat model
BeeRequest ==
    /\ script = "bee"
    /\ apc = "generate"
    /\ apc' = "awaitLLM"
    /\ requests' = requests + 1
    /\ UNCHANGED <<scriptVars>>
    /\ UNCHANGED <<memory, memAtCall, input, options, driverInput, driverOpts,
                   retries, reqLog, raw, parsed, output, runError, runCalls,
                   requestsAtSettle>>
    /\ UNCHANGED <<beeVars, templateVars>>

\* the model's answer ends the run, asks for a tool (next iteration), cannot
\* be parsed (retry within the two retry limits), or the request failed
BeeResponse(o) ==
    /\ script = "bee"
    /\ apc = "awaitLLM"
    /\ CASE o = "final" ->
              /\ apc' = "resolved"
              /\ UNCHANGED <<iteration, retries, totalRetries, runError>>
         [] o = "tool" ->
              IF iteration < BeeMaxIterations
              THEN /\ apc' = "generate"
                   /\ iteration' = iteration + 1
                   /\ retries' = 0
                   /\ UNCHANGED <<totalRetries, runError>>
              ELSE /\ apc' = "rejected"
                   /\ runError' = "iterations"
                   /\ UNCHANGED <<iteration, retries, totalRetries>>
         [] o = "invalid" ->
              IF retries < BeeMaxRetriesPerStep /\ totalRetries < BeeTotalMaxRetries
              THEN /\ apc' = "generate"
                   /\ retries' = retries + 1
                   /\ totalRetries' = totalRetries + 1
                   /\ UNCHANGED <<iteration, runError>>
              ELSE /\ apc' = "rejected"
                   /\ runError' = "parse"
                   /\ UNCHANGED <<iteration, retries, totalRetries>>
         [] o = "network" ->
              /\ apc' = "rejected"
              /\ runError' = "network"
              /\ UNCHANGED <<iteration, retries, totalRetries>>
    /\ UNCHANGED <<scriptVars>>
    /\ UNCHANGED <<memory, memAtCall, input, options, driverInput, driverOpts,
                   requests, reqLog, raw, parsed, output, runCalls,
                   requestsAtSettle>>
    /\ UNCHANGED <<templateVars>>

----------------------------------------------------------------------------
(* The custom agent script, "4. Execute the agent" *)

\* the try block up to the awaited customAgent.run({ message }).observe(...)
CustomScriptRun ==
    /\ script = "custom"
    /\ pc = "init"
    /\ pc' = "awaiting"
    /\ AgentRunStart(ScriptMessage, NoOptions)
    /\ \E d \in BOOLEAN :
         log' = log \o <<Line("script", "console", "message")>>
                    \o WritesOf(Maybe(d, "start"))
    /\ UNCHANGED <<script, exit, catches, requestsAtSettle>>
    /\ UNCHANGED <<beeVars, templateVars>>

\* the run resolved: reader.write(`Agent : `, response.message.text)
CustomScriptAnswer ==
    /\ script = "custom"
    /\ pc = "awaiting"
    /\ apc = "resolved"
    /\ pc' = "finally"
    /\ log' = Append(log, Line("script", "reader", "answer"))
    /\ requestsAtSettle' = requests
    /\ UNCHANGED <<script, exit, catches>>
    /\ UNCHANGED <<apc, memory, memAtCall, input, options, driverInput,
                   driverOpts, retries, requests, reqLog, raw, parsed, output,
                   runError, runCalls>>
    /\ UNCHANGED <<beeVars, templateVars>>

\* a catch block that logs the error and also prints it to the console
CustomScriptCatch_LogTwice ==
    /\ script = "custom"
    /\ pc = "awaiting"
    /\ apc = "rejected"
    /\ pc' = "finally"
    /\ catches' = catches + 1
    /\ log' = log \o <<Line("script", "logger", "dump"),
                       Line("script", "console", "dump")>>
    /\ requestsAtSettle' = requests
    /\ UNCHANGED <<script, exit>>
    /\ UNCHANGED <<apc, memory, memAtCall, input, options, driverInput,
                   driverOpts, retries, requests, reqLog, raw, parsed, output,
                   runError, runCalls>>
    /\ UNCHANGED <<beeVars, templateVars>>

\* the run rejected: logger.error(FrameworkError.ensure(error).dump())
CustomScriptCatch ==
    /\ script = "custom"
    /\ pc = "awaiting"
    /\ apc = "rejected"
    /\ pc' = "finally"
    /\ catches' = catches + 1
    /\ log' = Append(log, Line("script", "logger", "dump"))
    /\ requestsAtSettle' = requests
    /\ UNCHANGED <<script, exit>>
    /\ UNCHANGED <<apc, memory, memAtCall, input, options, driverInput,
                   driverOpts, retries, requests, reqLog, raw, parsed, output,
                   runError, runCalls>>
    /\ UNCHANGED <<beeVars, templateVars>>

\* a finally block that reports a caught error in the exit code
CustomScriptFinally_FailureCode ==
    /\ script = "custom"
    /\ pc = "finally"
    /\ pc' = "exited"
    /\ exit' = <<IF catches > 0 THEN 1 ELSE 0>>
    /\ UNCHANGED <<script, log, catches>>
    /\ UNCHANGED <<agentVars, beeVars, templateVars>>

\* finally { process.exit(0) }
CustomScriptFinally ==
    /\ script = "custom"
    /\ pc = "finally"
    /\ pc' = "exited"
    /\ exit' = <<0>>
    /\ UNCHANGED <<script, log, catches>>
    /\ UNCHANGED <<agentVars, beeVars, templateVars>>

----------------------------------------------------------------------------
(* The BeeAgent script *)

\* the try block up to the awaited agent.run({ prompt }, { execution })
BeeScriptRun ==
    /\ script = "bee"
    /\ pc = "init"
    /\ pc' = "awaiting"
    /\ apc' = "generate"
    /\ iteration' = 1
    /\ retries' = 0
    /\ totalRetries' = 0
    /\ requests' = 0
    /\ runCalls' = runCalls + 1
    /\ log' = Append(log, Line("script", "console", "message"))
    /\ UNCHANGED <<script, exit, catches>>
    /\ UNCHANGED <<memory, memAtCall, input, options, driverInput, driverOpts,
                   reqLog, raw, parsed, output, runError, requestsAtSettle>>
    /\ UNCHANGED <<templateVars>>

\* a script that runs the agent again after the answer
BeeScriptAnswer_RunAgain ==
    /\ script = "bee"
    /\ pc = "awaiting"
    /\ apc = "resolved"
    /\ pc' = IF runCalls < 2 THEN "init" ELSE "end"
    /\ log' = Append(log, Line("script", "console", "answer"))
    /\ requestsAtSettle' = requests
    /\ UNCHANGED <<script, exit, catches>>
    /\ UNCHANGED <<apc, memory, memAtCall, input, options, driverInput,
                   driverOpts, retries, requests, reqLog, raw, parsed, output,
                   runError, runCalls>>
    /\ UNCHANGED <<beeVars, templateVars>>

\* the run resolved: console.info(`Agent : ${response.result.text}`)
BeeScriptAnswer ==
    /\ script = "bee"
    /\ pc = "awaiting"
    /\ apc = "resolved"
    /\ pc' = "end"
    /\ log' = Append(log, Line("script", "console", "answer"))
    /\ requestsAtSettle' = requests
    /\ UNCHANGED <<script, exit, catches>>
    /\ UNCHANGED <<apc, memory, memAtCall, input, options, driverInput,
                   driverOpts, retries, requests, reqLog, raw, parsed, output,
                   runError, runCalls>>
    /\ UNCHANGED <<beeVars, templateVars>>

\* the run rejected: console.error(FrameworkError.ensure(error).dump())
BeeScriptCatch ==
    /\ script = "bee"
    /\ pc = "awaiting"
    /\ apc = "rejected"
    /\ pc' = "end"
    /\ catches' = catches + 1
    /\ log' = Append(log, Line("script", "console", "dump"))
    /\ requestsAtSettle' = requests
    /\ UNCHANGED <<script, exit>>
    /\ UNCHANGED <<apc, memory, memAtCall, input, options, driverInput,
                   driverOpts, retries, requests, reqLog, raw, parsed, output,
                   runError, runCalls>>
    /\ UNCHANGED <<beeVars, templateVars>>

\* the module body ends: nothing set an exit code, the process exits with 0
BeeScriptEnd ==
    /\ script = "bee"
    /\ pc = "end"
    /\ pc' = "exited"
    /\ exit' = <<0>>
    /\ UNCHANGED <<script, log, catches>>
    /\ UNCHANGED <<agentVars, beeVars, templateVars>>

----------------------------------------------------------------------------
(* A caller that uses CustomGermanAgent as a class: any memory, any options,
   several runs one after the other *)

BoundedSeq(S, n) == UNION {[1..k -> S] : k \in 0..n}

StoredMessages == {BaseMessageOf(r, t) : r \in {"user", "assistant"}, t \in Texts}
InputMessages == {BaseMessageOf("user", t) : t \in Texts}

\* customAgent.run({ message }, options) on an agent whose last run, if any,
\* has settled
AgentRun(msg, opts) ==
    /\ script = "lib"
    /\ apc \in {"idle", "resolved", "rejected"}
    /\ runCalls < MaxRuns
    /\ AgentRunStart(msg, opts)
    /\ UNCHANGED <<scriptVars, requestsAtSettle>>
    /\ UNCHANGED <<beeVars, templateVars>>

----------------------------------------------------------------------------
(* Specifications *)

InitTemplateIdle ==
    /\ tpc = "idle"
    /\ tSchema = <<>>
    /\ tRendered = <<>>
    /\ tMessages = <<>>
    /\ tPrompt = <<>>

InitRun ==
    /\ exit = <<>>
    /\ log = <<>>
    /\ catches = 0
    /\ apc = "idle"
    /\ memAtCall = <<>>
    /\ input = ScriptMessage
    /\ options = NoOptions
    /\ driverInput = <<>>
    /\ driverOpts = NoOptions
    /\ retries = 0
    /\ requests = 0
    /\ reqLog = <<>>
    /\ raw = <<>>
    /\ parsed = <<>>
    /\ output = <<>>
    /\ runError = "none"
    /\ runCalls = 0
    /\ requestsAtSettle = 0
    /\ iteration = 0
    /\ totalRetries = 0

\* one of the two scripts starts; the agent's memory is a new, empty
\* UnconstrainedMemory (TokenMemory for the BeeAgent)
Init ==
    /\ script \in {"custom", "bee"}
    /\ pc = "init"
    /\ memory = <<>>
    /\ InitRun
    /\ InitTemplateIdle

ScriptStep ==
    \/ CustomScriptRun
    \/ CustomScriptAnswer
    \/ CustomScriptCatch
    \/ CustomScriptFinally
    \/ BeeScriptRun
    \/ BeeScriptAnswer
    \/ BeeScriptCatch
    \/ BeeScriptEnd

Next ==
    \/ ScriptStep
    \/ DriverRequest
    \/ \E r \in LLMResponses : DriverResponse(r)
    \/ DriverNetworkError
    \/ RunFinish
    \/ BeeRequest
    \/ \E o \in BeeOutcomes : BeeResponse(o)

Spec == Init /\ [][Next]_vars

\* the runtime runs every continuation of the script that is ready, and _run
\* continues once driver.generate has returned
FairSpec == Spec /\ WF_vars(ScriptStep) /\ WF_vars(RunFinish)

\* the agent class under a caller of its own
InitAgent ==
    /\ script = "lib"
    /\ pc = "lib"
    /\ memory \in BoundedSeq(StoredMessages, MaxMemory)
    /\ InitRun
    /\ InitTemplateIdle

NextAgent ==
    \/ \E msg \in InputMessages, opts \in RunOptionsSet : AgentRun(msg, opts)
    \/ DriverRequest
    \/ \E r \in LLMResponses : DriverResponse(r)
    \/ DriverNetworkError
    \/ RunAbort
    \/ RunFinish

SpecAgent == InitAgent /\ [][NextAgent]_vars

----------------------------------------------------------------------------
(* Properties of the scripts *)

AfterAwait == pc \in {"finally", "end", "exited"}

CountLines(P(_)) == Cardinality({i \in DOMAIN log : P(log[i])})

IsDump(l) == l.kind = "dump"
IsScriptDump(l) == l.kind = "dump" /\ l.by = "script"
IsAnswer(l) == l.kind = "answer"

\* C1: whether the awaited run resolved or rejected, the script goes on to
\* the end of the process, and a process that has exited has exit code 0
C1_ExitsWithZero ==
    /\ Settled ~> (exit = <<0>>)
    /\ [](exit # <<>> => exit = <<0>>)

\* C1: the custom agent script has exited after it caught a failed run
C1_Witness ==
    script = "custom" /\ pc = "exited" /\ catches = 1 /\ runError = "network"

\* C2 as stated: after a failed run the error was caught once, its dump was
\* written exactly once to logger or console, the agent was not run again and
\* no answer line was written
C2_Original ==
    (apc = "rejected" /\ AfterAwait) =>
        /\ catches = 1
        /\ CountLines(IsDump) = 1
        /\ runCalls = 1
        /\ CountLines(IsAnswer) = 0

\* C2 amended: a failed run is caught once and its dump is written exactly
\* once by the top-level catch block (dumps the error observer wrote during
\* the run are not counted); the agent is not run again and no answer line is
\* written
C2_CaughtAndDumpedOnceByScript ==
    apc = "rejected" =>
        /\ runCalls = 1
        /\ CountLines(IsAnswer) = 0
        /\ pc = "awaiting" => (catches = 0 /\ CountLines(IsScriptDump) = 0)
        /\ AfterAwait => (catches = 1 /\ CountLines(IsScriptDump) = 1)

\* C2: the custom agent script has exited after a failed run whose error the
\* observer had already dumped to the reader
C2_Witness ==
    /\ script = "custom" /\ pc = "exited" /\ apc = "rejected"
    /\ CountLines(IsDump) = 2
    /\ CountLines(IsScriptDump) = 1

\* C3 as stated: one run per process, which issues one model request, and no
\* request after the run settled
C3_Original ==
    AfterAwait =>
        /\ runCalls = 1
        /\ requests = 1
        /\ requests = requestsAtSettle

\* the most requests one run can make under the retry and iteration limits
RequestLimit ==
    IF script = "bee" THEN BeeMaxIterations + BeeTotalMaxRetries
    ELSE 1 + DriverMaxRetries(driverOpts)

\* C3 amended: agent.run is called once per process; the run issues model
\* requests only until it settles, one per generation attempt and so possibly
\* more than one, within the retry and iteration limits
C3_OneRunRequestsOnlyWhilePending ==
    /\ runCalls <= 1
    /\ pc = "init" => (runCalls = 0 /\ requests = 0)
    /\ pc # "init" => runCalls = 1
    /\ requests <= RequestLimit
    /\ AfterAwait => (Settled /\ requests = requestsAtSettle)

\* C3: the custom agent script has exited after a run that needed a retry and
\* so issued two model requests
C3_Witness ==
    script = "custom" /\ pc = "exited" /\ apc = "resolved" /\ requests = 2

----------------------------------------------------------------------------
(* Properties of CustomGermanAgent._run *)

\* the retry bound the caller of run configured
ConfiguredBound == IF options.defined THEN options.maxRetries ELSE DefaultMaxRetries

HasBothFields(r) ==
    r.kind = "json" /\ {"thought", "final_answer"} \subseteq DOMAIN r.fields

\* C4: the driver never retries more often than the bound the caller
\* configured, every attempt but the first is a retry, a run returns only an
\* answer that parsed and has the shape of the schema, and a run that failed
\* on parsing has used up the bound and returned nothing
C4_RetriesWithinBound ==
    /\ retries <= ConfiguredBound
    /\ requests <= retries + 1
    /\ output # <<>> => (raw # <<>> /\ HasBothFields(raw[1])
                         /\ output[1].state = raw[1].fields)
    /\ (apc = "rejected" /\ runError = "parse") =>
           (retries = ConfiguredBound /\ output = <<>>)

\* C4: a run with maxRetries 1 failed after the second unparsable answer
C4_Witness ==
    /\ apc = "rejected" /\ runError = "parse"
    /\ options.defined /\ options.maxRetries = 1
    /\ retries = 1 /\ requests = 2

\* C7 as stated: the parsed result of a run never has an empty thought or an
\* empty final_answer
C7_Original ==
    apc \in {"generated", "resolved"} =>
        /\ Len(parsed["thought"]) > 0
        /\ Len(parsed["final_answer"]) > 0

\* C7 amended: the parsed result of a run comes from a JSON answer that has
\* both fields, thought and final_answer; an answer without one of them never
\* becomes the parsed result (a field that is the empty string passes)
C7_BothFieldsPresent ==
    apc \in {"generated", "resolved"} =>
        /\ raw # <<>>
        /\ HasBothFields(raw[1])
        /\ DOMAIN parsed = {"thought", "final_answer"}
        /\ parsed = raw[1].fields

\* C7: a run resolved with an empty final_answer, stored as an assistant
\* message with empty text
C7_Witness ==
    /\ apc = "resolved"
    /\ parsed["final_answer"] = <<>>
    /\ memory[Len(memory)] = BaseMessageOf("assistant", <<>>)

\* C8: the list handed to the driver, and sent with every request of the
\* run, is the memory as it was at the call followed by the input message;
\* the memory is not touched while the driver generates
C8_MemoryThenInput ==
    apc # "idle" =>
        /\ driverInput = memAtCall \o <<input>>
        /\ Len(reqLog) = requests
        /\ \A i \in DOMAIN reqLog : reqLog[i] = memAtCall \o <<input>>
        /\ apc \in {"generate", "awaitLLM", "generated"} => memory = memAtCall

\* C8: the second run on an agent sent two requests (one retry), each with
\* the stored turns, the answer of the first run among them, ahead of the
\* input
C8_Witness ==
    /\ runCalls = 2
    /\ Len(reqLog) = 2
    /\ Len(memAtCall) >= 1
    /\ memAtCall[Len(memAtCall)].role = "assistant"

\* C9: after a successful run the memory is the memory at the call plus one
\* assistant message with the parsed final_answer as text, and that message
\* and the parsed state are what the run returned
C9_AppendsOneAssistantMessage ==
    apc = "resolved" =>
        /\ memory = memAtCall \o <<[role |-> "assistant",
                                    text |-> parsed["final_answer"]]>>
        /\ output # <<>>
        /\ output[1].message = memory[Len(memory)]
        /\ output[1].state = parsed
        /\ output[1].message.text = output[1].state["final_answer"]

\* C9: a run on a non-empty memory resolved with an answer that differs from
\* the thought and from the input
C9_Witness ==
    /\ apc = "resolved"
    /\ Len(memAtCall) >= 1
    /\ parsed["final_answer"] = <<"a">>
    /\ parsed["thought"] = <<>>
    /\ input.text = <<>>

\* C10: a run that rejected left the memory as it was at the call and
\* returned nothing
C10_FailureLeavesMemory ==
    apc = "rejected" => (memory = memAtCall /\ output = <<>>)

\* C10: a run on a non-empty memory rejected after a retry
C10_Witness ==
    /\ apc = "rejected"
    /\ runError = "parse"
    /\ retries >= 1
    /\ Len(memAtCall) >= 1

----------------------------------------------------------------------------
(* Prompt templates (PromptTemplate, rendered with Mustache) *)

\* values a template is rendered with
Str(s) == [k |-> "str", v |-> s]
Arr(items) == [k |-> "arr", v |-> items]
Obj(f) == [k |-> "obj", v |-> f]

\* parsed template: literal text, {{name}}, {{#name}} body {{/name}}
Text(s) == [t |-> "text", n |-> "", body |-> <<>>, v |-> s]
Var(name) == [t |-> "name", n |-> name, body |-> <<>>, v |-> <<>>]
Section(name, body) == [t |-> "#", n |-> name, body |-> body, v |-> <<>>]

\* Mustache.escape, character by character (the token BACKTICK is the
\* backtick character)
EscapeChar(c) ==
    CASE c = "&"  -> <<"&amp;">>
      [] c = "<"  -> <<"&lt;">>
      [] c = ">"  -> <<"&gt;">>
      [] c = "\"" -> <<"&quot;">>
      [] c = "'"  -> <<"&#39;">>
      [] c = "/"  -> <<"&#x2F;">>
      [] c = "BACKTICK" -> <<"&#x60;">>
      [] c = "="  -> <<"&#x3D;">>
      [] OTHER    -> <<c>>

RECURSIVE MustacheEscape(_)
MustacheEscape(s) ==
    IF s = <<>> THEN <<>> ELSE EscapeChar(Head(s)) \o MustacheEscape(Tail(s))

\* String(value): a string is itself, an array its items joined by commas
RECURSIVE StringOf(_)
RECURSIVE JoinItems(_)
JoinItems(items) ==
    IF items = <<>> THEN <<>>
    ELSE IF Len(items) = 1 THEN StringOf(items[1])
    ELSE StringOf(items[1]) \o <<",">> \o JoinItems(Tail(items))
StringOf(val) ==
    CASE val.k = "str" -> val.v
      [] val.k = "arr" -> JoinItems(val.v)
      [] OTHER         -> <<"[object Object]">>

\* Context.lookup: the innermost view of the stack that is an object with
\* the name as a property; <<>> when there is none, <<value>> otherwise
RECURSIVE Lookup(_, _)
Lookup(ctx, name) ==
    IF ctx = <<>> THEN <<>>
    ELSE LET top == ctx[Len(ctx)] IN
         IF top.k = "obj" /\ name \in DOMAIN top.v
         THEN <<top.v[name]>>
         ELSE Lookup(SubSeq(ctx, 1, Len(ctx) - 1), name)

\* Writer.renderTokens, renderSection and escapedValue
RECURSIVE RenderTokens(_, _, _)
RECURSIVE RenderItems(_, _, _, _)
RenderItems(body, items, ctx, escape) ==
    IF items = <<>> THEN <<>>
    ELSE RenderTokens(body, Append(ctx, Head(items)), escape)
            \o RenderItems(body, Tail(items), ctx, escape)
RenderTokens(nodes, ctx, escape) ==
    IF nodes = <<>> THEN <<>>
    ELSE LET node == Head(nodes)
             hit == Lookup(ctx, node.n)
             this ==
               CASE node.t = "text" -> node.v
                 [] node.t = "name" ->
                      IF hit = <<>> THEN <<>>
                      ELSE IF escape THEN MustacheEscape(StringOf(hit[1]))
                      ELSE StringOf(hit[1])
                 [] OTHER ->
                      IF hit = <<>> THEN <<>>
                      ELSE IF hit[1].k = "arr"
                      THEN RenderItems(node.body, hit[1].v, ctx, escape)
                      ELSE IF hit[1].k = "str" /\ hit[1].v = <<>> THEN <<>>
                      ELSE RenderTokens(node.body, Append(ctx, hit[1]), escape)
         IN this \o RenderTokens(Tail(nodes), ctx, escape)

\* the rendering of PromptTemplate.render(input): the template's values are
\* escaped only if the template was declared with escape: true
PromptTemplateRender(tpl, view) == RenderTokens(tpl.template, <<view>>, tpl.escape)

----------------------------------------------------------------------------
(* CustomGermanAgent.systemPrompt *)

\* the instruction text before and after the schema placeholder
SystemPromptHead == <<"## System Instructions ... You are ... Thomas. ...\n\n", "BACKTICK", "BACKTICK", "BACKTICK", "\n">>
SystemPromptTail == <<"\n", "BACKTICK", "BACKTICK", "BACKTICK", "\n\nIMPORTANT: Every answer must be a parsable JSON string without additional output.\n">>

\* a system prompt declared with escape: true
systemPrompt_Escaped ==
    [schema   |-> [k \in {"schema"} |-> ZStringMin(1)],
     template |-> <<Text(SystemPromptHead), Var("schema"), Text(SystemPromptTail)>>,
     escape   |-> TRUE]

\* new PromptTemplate({ schema: z.object({ schema: z.string().min(1) }),
\*                      template: '## System Instructions ... {{schema}} ...' })
systemPrompt ==
    [schema   |-> [k \in {"schema"} |-> ZStringMin(1)],
     template |-> <<Text(SystemPromptHead), Var("schema"), Text(SystemPromptTail)>>,
     escape   |-> FALSE]

----------------------------------------------------------------------------
(* The chat prompt template of the watsonx chat model *)

BeginOfText == "<|begin_of_text|>"
StartHeader == "<|start_header_id|>"
EndHeader == "<|end_header_id|>"
EndOfTurn == "<|eot_id|>"
BlankLine == "\n  \n  "

\* {{#role}} header of the role, {{role}}, <|eot_id|> {{/role}}
RoleSection(role, prefix) ==
    Section(role, <<Text(prefix \o <<StartHeader, role, EndHeader, BlankLine>>),
                    Var(role),
                    Text(<<EndOfTurn>>)>>)

\* const template = new PromptTemplate({ ... })
template ==
    [template |-> <<Section("messages",
                            <<RoleSection("system", <<BeginOfText>>),
                              RoleSection("user", <<>>),
                              RoleSection("assistant", <<>>)>>),
                    Text(<<StartHeader, "assistant", EndHeader, BlankLine>>)>>,
     escape   |-> FALSE]

\* a mapping that files user messages under assistant
MessageView_UserAsAssistant(message) ==
    Obj([system    |-> Arr(IF message.role = "system" THEN <<Str(message.text)>> ELSE <<>>),
         user      |-> Arr(<<>>),
         assistant |-> Arr(IF message.role \in {"assistant", "user"}
                           THEN <<Str(message.text)>> ELSE <<>>)])

\* (message) => ({ system: ..., user: ..., assistant: ... })
MessageView(message) ==
    Obj([system    |-> Arr(IF message.role = "system" THEN <<Str(message.text)>> ELSE <<>>),
         user      |-> Arr(IF message.role = "user" THEN <<Str(message.text)>> ELSE <<>>),
         assistant |-> Arr(IF message.role = "assistant" THEN <<Str(message.text)>> ELSE <<>>)])

\* messages.map((message) => ...)
RECURSIVE MessageViews(_)
MessageViews(messages) ==
    IF messages = <<>> THEN <<>>
    ELSE <<MessageView(Head(messages))>> \o MessageViews(Tail(messages))

\* messagesToPrompt(messages)
messagesToPrompt(messages) ==
    PromptTemplateRender(template, Obj([messages |-> Arr(MessageViews(messages))]))

----------------------------------------------------------------------------
(* The two renderings on every input within the bounds *)

TextChars == {"a", "b"}
SchemaChars == {"a", "\"", "<"}

PromptMessages ==
    {BaseMessageOf(r, t) : r \in Roles, t \in BoundedSeq(TextChars, MaxTextLen)}

InitTemplate ==
    /\ script = "lib"
    /\ pc = "lib"
    /\ memory = <<>>
    /\ InitRun
    /\ tRendered = <<>>
    /\ tPrompt = <<>>
    /\ \/ /\ tpc = "schema"
          /\ tSchema \in BoundedSeq(SchemaChars, MaxSchemaLen)
          /\ tMessages = <<>>
       \/ /\ tpc = "messages"
          /\ tMessages \in BoundedSeq(PromptMessages, MaxMessages)
          /\ tSchema = <<>>

\* systemPrompt.render({ schema }): the input is validated, then rendered
RenderSystemPrompt ==
    /\ tpc = "schema"
    /\ IF ZodAccepts(systemPrompt.schema, [schema |-> tSchema])
       THEN /\ tpc' = "rendered"
            /\ tRendered' = <<PromptTemplateRender(systemPrompt,
                                                   Obj([schema |-> Str(tSchema)]))>>
       ELSE /\ tpc' = "renderError"
            /\ tRendered' = <<>>
    /\ UNCHANGED <<tSchema, tMessages, tPrompt>>
    /\ UNCHANGED <<scriptVars, agentVars, beeVars>>

\* the chat model turns its messages into the prompt
MessagesToPrompt ==
    /\ tpc = "messages"
    /\ tpc' = "prompted"
    /\ tPrompt' = messagesToPrompt(tMessages)
    /\ UNCHANGED <<tSchema, tMessages, tRendered>>
    /\ UNCHANGED <<scriptVars, agentVars, beeVars>>

NextTemplate == RenderSystemPrompt \/ MessagesToPrompt

SpecTemplate == InitTemplate /\ [][NextTemplate]_vars

\* the segment of one message: its role's header, its text, the end-of-turn
\* token; a system segment opens with the begin-of-text token
Segment(m) ==
    (IF m.role = "system" THEN <<BeginOfText>> ELSE <<>>)
        \o <<StartHeader, m.role, EndHeader, BlankLine>> \o m.text \o <<EndOfTurn>>

RECURSIVE Segments(_)
Segments(messages) ==
    IF messages = <<>> THEN <<>>
    ELSE Segment(Head(messages)) \o Segments(Tail(messages))

CountTokens(s, tok) == Cardinality({i \in DOMAIN s : s[i] = tok})

\* C5: the prompt is the messages' segments, one per message and in the
\* order of the list, each with the header of its own role, followed by the
\* open assistant header; so it holds one header per message and one more
C5_SegmentsInOrder ==
    tpc = "prompted" =>
        /\ tPrompt = Segments(tMessages)
                        \o <<StartHeader, "assistant", EndHeader, BlankLine>>
        /\ CountTokens(tPrompt, StartHeader) = Len(tMessages) + 1
        /\ CountTokens(tPrompt, EndOfTurn) = Len(tMessages)

\* C5: a list with one message of every role, assistant before user, was
\* turned into a prompt
C5_Witness ==
    /\ tpc = "prompted"
    /\ Len(tMessages) = 3
    /\ tMessages[1].role = "system"
    /\ tMessages[2].role = "assistant"
    /\ tMessages[3].role = "user"
    /\ tMessages[2].text # tMessages[3].text

\* C6: the rendering of the system prompt with a non-empty schema string is
\* the instruction text with exactly that string in the placeholder's place
C6_SchemaVerbatim ==
    (tpc \in {"rendered", "renderError"} /\ Len(tSchema) >= 1) =>
        /\ tpc = "rendered"
        /\ tRendered = <<SystemPromptHead \o tSchema \o SystemPromptTail>>

\* C6: a schema string with a quote and an angle bracket was rendered
C6_Witness ==
    /\ tpc = "rendered"
    /\ tSchema = <<"\"", "<">>

====
